---- MODULE Spec2Model ----
(***************************************************************************)
(* A model of rust-grep (crate grep_remake): src/src/lib.rs (Config::new,  *)
(* run, search, search_case_insensitive) and src/src/main.rs (main).       *)
(*                                                                         *)
(* Text is a sequence of code points (a Rust String / &str seen as its     *)
(* chars).  An OS string (a command-line argument, an environment value,   *)
(* the bytes of a file) is a sequence of units, each either a Unicode      *)
(* scalar value or Ill, a unit that is not valid Unicode; it converts to   *)
(* a String exactly when no unit is Ill.                                   *)
(***************************************************************************)
EXTENDS Integers, Sequences, FiniteSets, TLC

(* ---- bounds of the model ---- *)
MaxContentsLen == 3
MaxQueryLen == 2
MaxArgs == 4
MaxFileLen == 2

(* ---- code points ---- *)
LF == 10
CR == 13
Ill == 56575
SigmaUpper == 931
SigmaLower == 963
SigmaFinal == 962
IDotUpper == 304
DotAbove == 775
\* the signal that ends a process writing past its file size limit
SIGXFSZ == 25

\* the characters the searched texts are drawn from:
\*   \n  \r  I  i  U+0130 (I with dot above)  U+0307 (combining dot above)  U+03A3 (capital sigma)
Alphabet == {LF, CR, 73, 105, IDotUpper, DotAbove, SigmaUpper}

RECURSIVE SeqsUpTo(_, _)
SeqsUpTo(S, n) ==
  IF n = 0 THEN {<<>>}
  ELSE LET shorter == SeqsUpTo(S, n - 1)
       IN  shorter \cup {Append(s, c) : s \in shorter, c \in S}

None == <<>>
Some(x) == <<x>>
Unwrap(o) == o[1]

(***************************************************************************)
(* str::contains(&str): literal substring test.                            *)
(***************************************************************************)
contains_nonempty_needle(haystack, needle) ==
  /\ needle # <<>>
  /\ \E i \in 0..(Len(haystack) - Len(needle)) :
       SubSeq(haystack, i + 1, i + Len(needle)) = needle

contains(haystack, needle) ==
  \E i \in 0..(Len(haystack) - Len(needle)) :
    SubSeq(haystack, i + 1, i + Len(needle)) = needle

(***************************************************************************)
(* str::lines(): split_inclusive('\n'), then from each piece strip one     *)
(* trailing "\n" and, only if a "\n" was stripped, one trailing "\r".      *)
(***************************************************************************)
RECURSIVE split_inclusive(_)
split_inclusive(s) ==
  IF s = <<>> THEN <<>>
  ELSE LET nl == {i \in 1..Len(s) : s[i] = LF}
       IN  IF nl = {} THEN <<s>>
           ELSE LET i == CHOOSE j \in nl : \A k \in nl : j <= k
                IN  <<SubSeq(s, 1, i)>> \o split_inclusive(SubSeq(s, i + 1, Len(s)))

strip_line_ending(piece) ==
  IF piece # <<>> /\ piece[Len(piece)] = LF
  THEN LET l == SubSeq(piece, 1, Len(piece) - 1)
       IN  IF l # <<>> /\ l[Len(l)] = CR THEN SubSeq(l, 1, Len(l) - 1) ELSE l
  ELSE piece

lines(s) ==
  LET pieces == split_inclusive(s)
  IN  [k \in 1..Len(pieces) |-> strip_line_ending(pieces[k])]

(***************************************************************************)
(* str::to_lowercase(): every char is replaced by its lowercase mapping,   *)
(* except capital sigma, which maps to final sigma when it is preceded by  *)
(* a cased letter and not followed by one (case-ignorable chars skipped),  *)
(* and to small sigma otherwise.  The tables below are the rows of the     *)
(* Unicode tables for ASCII and for the non-ASCII characters of Alphabet   *)
(* and their images.                                                       *)
(***************************************************************************)
Cased(c) ==
  \/ c \in 65..90
  \/ c \in 97..122
  \/ c \in {IDotUpper, SigmaUpper, SigmaLower, SigmaFinal}

Case_Ignorable(c) == c \in {39, 46, 58, 94, 96, DotAbove}

to_lower(c) ==
  IF c \in 65..90 THEN <<c + 32>>
  ELSE IF c = IDotUpper THEN <<105, DotAbove>>
  ELSE IF c = SigmaUpper THEN <<SigmaLower>>
  ELSE <<c>>

RECURSIVE case_ignorable_then_cased(_)
case_ignorable_then_cased(iter) ==
  IF iter = <<>> THEN FALSE
  ELSE IF Case_Ignorable(Head(iter)) THEN case_ignorable_then_cased(Tail(iter))
  ELSE Cased(Head(iter))

Reverse(s) == [k \in 1..Len(s) |-> s[Len(s) + 1 - k]]

map_uppercase_sigma(from, i) ==
  LET is_word_final ==
        /\ case_ignorable_then_cased(Reverse(SubSeq(from, 1, i - 1)))
        /\ ~case_ignorable_then_cased(SubSeq(from, i + 1, Len(from)))
  IN  IF is_word_final THEN <<SigmaFinal>> ELSE <<SigmaLower>>

RECURSIVE lowercase_from(_, _)
lowercase_from(s, i) ==
  IF i > Len(s) THEN <<>>
  ELSE (IF s[i] = SigmaUpper THEN map_uppercase_sigma(s, i) ELSE to_lower(s[i]))
       \o lowercase_from(s, i + 1)

to_lowercase(s) == lowercase_from(s, 1)

(***************************************************************************)
(* search and search_case_insensitive (lib.rs): one pass over the lines,   *)
(* pushing each line that passes the test.                                 *)
(***************************************************************************)
search_dedup(query, contents) ==
  LET ls == lines(contents)
      hit(k) == contains(ls[k], query) /\ \A j \in 1..(k - 1) : ls[j] # ls[k]
      F[k \in 0..Len(ls)] ==
        IF k = 0 THEN <<>>
        ELSE IF hit(k) THEN Append(F[k - 1], ls[k]) ELSE F[k - 1]
  IN  F[Len(ls)]

search(query, contents) ==
  LET ls == lines(contents)
      F[k \in 0..Len(ls)] ==
        IF k = 0 THEN <<>>
        ELSE IF contains(ls[k], query) THEN Append(F[k - 1], ls[k]) ELSE F[k - 1]
  IN  F[Len(ls)]

search_case_insensitive_push_lowered(query, contents) ==
  LET q == to_lowercase(query)
      ls == lines(contents)
      F[k \in 0..Len(ls)] ==
        IF k = 0 THEN <<>>
        ELSE IF contains(to_lowercase(ls[k]), q)
             THEN Append(F[k - 1], to_lowercase(ls[k])) ELSE F[k - 1]
  IN  F[Len(ls)]

search_case_insensitive(query, contents) ==
  LET q == to_lowercase(query)
      ls == lines(contents)
      F[k \in 0..Len(ls)] ==
        IF k = 0 THEN <<>>
        ELSE IF contains(to_lowercase(ls[k]), q) THEN Append(F[k - 1], ls[k]) ELSE F[k - 1]
  IN  F[Len(ls)]

(***************************************************************************)
(* The process environment and the library calls of main and run.          *)
(***************************************************************************)
Ok(v) == [ok |-> TRUE, value |-> v]
Err(e) == [ok |-> FALSE, err |-> e]

IsUnicode(os) == \A i \in 1..Len(os) : os[i] # Ill

\* env::var(key): Err when the variable is absent and also when its value is
\* not valid Unicode
env_var(e, key) ==
  IF key \notin DOMAIN e THEN Err("NotPresent")
  ELSE IF ~IsUnicode(e[key]) THEN Err("NotUnicode")
  ELSE Ok(e[key])

\* fs::read_to_string(path): Err when there is no such file and when its
\* bytes are not valid UTF-8
read_to_string(files, path) ==
  IF path \notin DOMAIN files THEN Err("NotFound")
  ELSE IF ~IsUnicode(files[path]) THEN Err("InvalidData")
  ELSE Ok(files[path])

\* the UTF-8 bytes of a char and of a text
utf8_char(c) ==
  IF c < 128 THEN <<c>>
  ELSE IF c < 2048 THEN <<192 + (c \div 64), 128 + (c % 64)>>
  ELSE IF c < 65536
       THEN <<224 + (c \div 4096), 128 + ((c \div 64) % 64), 128 + (c % 64)>>
  ELSE <<240 + (c \div 262144), 128 + ((c \div 4096) % 64),
         128 + ((c \div 64) % 64), 128 + (c % 64)>>

RECURSIVE utf8(_)
utf8(text) == IF text = <<>> THEN <<>> ELSE utf8_char(Head(text)) \o utf8(Tail(text))

\* println!("{}", text): the bytes it writes to standard output.  The stream
\* takes them all, or only the first n of them (its reader is gone, the
\* device is full, a size limit is reached): then println! panics with
\* "failed printing to stdout", or the process is killed by SIGXFSZ.
println(text) == utf8(text) \o <<LF>>

SearchingFor == <<83, 101, 97, 114, 99, 104, 105, 110, 103, 32, 102, 111, 114, 32>>
InFile == <<73, 110, 32, 102, 105, 108, 101, 32>>

(***************************************************************************)
(* Config::new (lib.rs)                                                    *)
(***************************************************************************)
Config_new_swapped(a, e) ==
  IF Len(a) < 3
  THEN Err("Some arguments appear to be missing")
  ELSE Ok([query |-> a[3], filename |-> a[2],
           case_sensitive |-> ~env_var(e, "CASE_INSENSITIVE").ok])

Config_new(a, e) ==
  IF Len(a) < 3
  THEN Err("Some arguments appear to be missing")
  ELSE Ok([query |-> a[2], filename |-> a[3],
           case_sensitive |-> ~env_var(e, "CASE_INSENSITIVE").ok])

(***************************************************************************)
(* State.                                                                  *)
(*   argv, env, fs   what the process is started with: its command line,   *)
(*                   its environment, the files that exist                 *)
(*   stdout_open, stderr_open  whether the descriptor of the stream is     *)
(*                   open for writing when the process starts              *)
(*   pc              the position of main / run                             *)
(*   args            main's args vector                                     *)
(*   made            what Config::new returned                              *)
(*   config          main's config, then run's parameter                    *)
(*   contents        run's contents                                         *)
(*   results, next   run's results and the position of its output loop      *)
(*   ran             what run returned                                      *)
(*   stdout          the bytes standard output has taken                    *)
(*   outbuf          the bytes held in the line buffer of standard output   *)
(*   stderr          the messages standard error has taken, each in full    *)
(*                   or in part                                             *)
(*   exit            how the process ends: its exit code, the function      *)
(*                   that ended it and why                                  *)
(*   tquery, tcontents, tfound, tfound_ci, tpc: a direct caller of the two *)
(*   search functions, as the unit tests of lib.rs are.                    *)
(***************************************************************************)
VARIABLES argv, env, fs, stdout_open, stderr_open, pc, args, made, config, contents, results, next, ran,
          stdout, outbuf, stderr, exit,
          tquery, tcontents, tfound, tfound_ci, tpc

mvars == <<argv, env, fs, stdout_open, stderr_open, pc, args, made, config, contents, results, next, ran,
           stdout, outbuf, stderr, exit>>
tvars == <<tquery, tcontents, tfound, tfound_ci, tpc>>
vars == <<mvars, tvars>>

\* how much of a message standard error takes: all of it, its first bytes
\* only, or nothing (the reader is gone, the device is full, a size limit);
\* a write to a stream whose descriptor is not open for writing is dropped
\* and counts as done
Taken == {"all", "part", "none"}
StderrTakes == IF stderr_open THEN Taken ELSE {"none"}
StderrWritten(taken) == taken = "all" \/ ~stderr_open

\* how many of the bytes of a println! standard output takes, and whether
\* println! returns: a write to a descriptor not open for writing is
\* dropped and counts as done
StdoutTakes(bytes) == IF stdout_open THEN 0..Len(bytes) ELSE {0}
StdoutWritten(bytes, n) == n = Len(bytes) \/ ~stdout_open

\* standard error after a write of one message of which it took `taken`
StderrWrite(log, by, text, taken) ==
  IF taken = "none"
  THEN log
  ELSE Append(log, [by |-> by, text |-> text, taken |-> taken])

\* the ways a process ends: with an exit code, or killed by a signal
Exit(code, by, why) ==
  Some([code |-> Some(code), signal |-> None, by |-> by, why |-> why])
Signal(by, why) ==
  Some([code |-> None, signal |-> Some(SIGXFSZ), by |-> by, why |-> why])

\* a write past the file size limit, the signal not being ignored: the
\* process is killed inside the function `by`; nothing more is written,
\* the line buffer of standard output is not flushed
Killed(by, why) ==
  /\ exit' = Signal(by, why)
  /\ pc' = "exited"

\* a panic inside the function `by`: the panic message is written to
\* standard error, which takes all, part or nothing of it; the process is
\* then on its way out with exit code 101, unless the incomplete write of
\* the message was one past the file size limit, which kills it
PanicExit(log, by, message) ==
  \E taken \in StderrTakes :
    /\ stderr' = StderrWrite(log, by, <<"thread 'main' panicked", message>>, taken)
    /\ \/ /\ exit' = Exit(101, by, message)
          /\ pc' = "cleanup"
       \/ /\ ~StderrWritten(taken)
          /\ Killed(by, message)

\* a println! of `text` inside the function `by` of which standard output
\* took only the first n bytes: the unwritten bytes stay in the line
\* buffer (the newline after an empty text meets an empty buffer and is
\* written directly, so nothing is kept of it), and println! panics or the
\* process is killed
PrintFailed(by, text, bytes, n) ==
  /\ outbuf' = IF text = <<>> THEN <<>> ELSE SubSeq(bytes, n + 1, Len(bytes))
  /\ \/ PanicExit(stderr, by, "failed printing to stdout")
     \/ /\ Killed(by, "killed printing to stdout")
        /\ UNCHANGED stderr

\* an eprintln! of `text` in main: process::exit(1) follows when standard
\* error takes the whole message or drops it; otherwise eprintln! panics or the process
\* is killed
EprintlnThenExit(text) ==
  \E taken \in StderrTakes :
    LET log == StderrWrite(stderr, "main", text, taken)
    IN  IF StderrWritten(taken)
        THEN /\ stderr' = log
             /\ exit' = Exit(1, "main", "process::exit")
             /\ pc' = "cleanup"
        ELSE \/ PanicExit(log, "main", "failed printing to stderr")
             \/ /\ stderr' = log
                /\ Killed("main", "killed printing to stderr")

ProgramName == <<112>>
FileName == <<102>>
ArgStrings == {<<>>, <<105>>, FileName, <<Ill>>}
EnvValues == {<<>>, <<49>>, <<Ill>>}
FileAlphabet == {LF, 73, 105}
FileTexts == SeqsUpTo(FileAlphabet, MaxFileLen) \cup {<<Ill>>}
ArgVectors ==
  {<<ProgramName>> \o rest : rest \in SeqsUpTo(ArgStrings, MaxArgs - 1)}
Environments ==
  {<<>>} \cup {[k \in {"CASE_INSENSITIVE"} |-> v] : v \in EnvValues}
FileSystems ==
  {<<>>} \cup {[k \in {FileName} |-> t] : t \in FileTexts}

Queries == SeqsUpTo(Alphabet, MaxQueryLen)
Contents == SeqsUpTo(Alphabet, MaxContentsLen)

MainIdle ==
  /\ argv = <<ProgramName>>
  /\ env = <<>>
  /\ fs = <<>>
  /\ stdout_open = TRUE
  /\ stderr_open = TRUE
  /\ pc = "idle"
  /\ args = None
  /\ made = None
  /\ config = None
  /\ contents = None
  /\ results = <<>>
  /\ next = 1
  /\ ran = None
  /\ stdout = <<>>
  /\ outbuf = <<>>
  /\ stderr = <<>>
  /\ exit = None

TestIdle ==
  /\ tquery = <<>>
  /\ tcontents = <<>>
  /\ tfound = None
  /\ tfound_ci = None
  /\ tpc = "idle"

Init ==
  /\ argv \in ArgVectors
  /\ env \in Environments
  /\ fs \in FileSystems
  /\ stdout_open \in BOOLEAN
  /\ stderr_open \in BOOLEAN
  /\ pc = "main"
  /\ args = None
  /\ made = None
  /\ config = None
  /\ contents = None
  /\ results = <<>>
  /\ next = 1
  /\ ran = None
  /\ stdout = <<>>
  /\ outbuf = <<>>
  /\ stderr = <<>>
  /\ exit = None
  /\ TestIdle

\* main.rs:9  env::args().collect(): the iterator panics on an argument
\* that is not valid Unicode
MainArgs ==
  /\ pc = "main"
  /\ IF \A i \in 1..Len(argv) : IsUnicode(argv[i])
     THEN /\ args' = Some(argv)
          /\ pc' = "config_new"
          /\ UNCHANGED <<stderr, exit>>
     ELSE /\ PanicExit(stderr, "main", "invalid unicode in argument")
          /\ UNCHANGED args
  /\ UNCHANGED <<argv, env, fs, stdout_open, stderr_open, made, config, contents, results, next, ran, stdout, outbuf, tvars>>

\* main.rs:12  Config::new(&args)
MainConfigNew ==
  /\ pc = "config_new"
  /\ made' = Some(Config_new(Unwrap(args), env))
  /\ pc' = "unwrap_or_else"
  /\ UNCHANGED <<argv, env, fs, stdout_open, stderr_open, args, config, contents, results, next, ran, stdout, outbuf, stderr, exit, tvars>>

\* main.rs:13-17  .unwrap_or_else(|err| { eprintln!(..); process::exit(1) }):
\* eprintln! panics unless standard error takes the whole message
MainUnwrapOrElse ==
  /\ pc = "unwrap_or_else"
  /\ IF Unwrap(made).ok
     THEN /\ config' = Some(Unwrap(made).value)
          /\ pc' = "print_query"
          /\ UNCHANGED <<stderr, exit>>
     ELSE /\ EprintlnThenExit(<<"Problem parsing arguments: ", Unwrap(made).err>>)
          /\ UNCHANGED config
  /\ UNCHANGED <<argv, env, fs, stdout_open, stderr_open, args, made, contents, results, next, ran, stdout, outbuf, tvars>>

\* main.rs:20  println!("Searching for {}", config.query)
MainPrintQuery ==
  /\ pc = "print_query"
  /\ LET text == SearchingFor \o Unwrap(config).query
         bytes == println(text)
     IN  \E n \in StdoutTakes(bytes) :
           /\ stdout' = stdout \o SubSeq(bytes, 1, n)
           /\ IF StdoutWritten(bytes, n)
              THEN pc' = "print_filename" /\ UNCHANGED <<outbuf, stderr, exit>>
              ELSE PrintFailed("main", text, bytes, n)
  /\ UNCHANGED <<argv, env, fs, stdout_open, stderr_open, args, made, config, contents, results, next, ran, tvars>>

\* main.rs:21  println!("In file {}", config.filename)
MainPrintFilename ==
  /\ pc = "print_filename"
  /\ LET text == InFile \o Unwrap(config).filename
         bytes == println(text)
     IN  \E n \in StdoutTakes(bytes) :
           /\ stdout' = stdout \o SubSeq(bytes, 1, n)
           /\ IF StdoutWritten(bytes, n)
              THEN pc' = "run_read" /\ UNCHANGED <<outbuf, stderr, exit>>
              ELSE PrintFailed("main", text, bytes, n)
  /\ UNCHANGED <<argv, env, fs, stdout_open, stderr_open, args, made, config, contents, results, next, ran, tvars>>

\* lib.rs:62-64  fs::read_to_string(config.filename).expect(..): a failed
\* read panics inside run
RunRead ==
  /\ pc = "run_read"
  /\ LET r == read_to_string(fs, Unwrap(config).filename)
     IN  IF r.ok
         THEN /\ contents' = Some(r.value)
              /\ pc' = "run_search"
              /\ UNCHANGED <<stderr, exit>>
         ELSE /\ PanicExit(stderr, "run", "Something went wrong reading the file")
              /\ UNCHANGED contents
  /\ UNCHANGED <<argv, env, fs, stdout_open, stderr_open, args, made, config, results, next, ran, stdout, outbuf, tvars>>

\* the conditions under which the steps of run after the read, main's last
\* step and the end of the process are taken
AtRunSearch == pc = "run_search"
AtRunOutput == pc = "run_output" /\ next <= Len(results)
AtRunReturn == pc = "run_output" /\ next > Len(results)
AtMainFinish == pc = "if_let_err" /\ ran # None
AtProcessEnd == pc = "cleanup"

\* lib.rs:67-73
RunSearch ==
  /\ AtRunSearch
  /\ results' = IF Unwrap(config).case_sensitive
                THEN search(Unwrap(config).query, Unwrap(contents))
                ELSE search_case_insensitive(Unwrap(config).query, Unwrap(contents))
  /\ next' = 1
  /\ pc' = "run_output"
  /\ UNCHANGED <<argv, env, fs, stdout_open, stderr_open, args, made, config, contents, ran, stdout, outbuf, stderr, exit, tvars>>

\* lib.rs:76-78  one turn of the output loop
RunOutput ==
  /\ AtRunOutput
  /\ LET text == results[next]
         bytes == println(text)
     IN  \E n \in StdoutTakes(bytes) :
           /\ stdout' = stdout \o SubSeq(bytes, 1, n)
           /\ IF StdoutWritten(bytes, n)
              THEN next' = next + 1 /\ UNCHANGED <<pc, outbuf, stderr, exit>>
              ELSE PrintFailed("run", text, bytes, n) /\ UNCHANGED next
  /\ UNCHANGED <<argv, env, fs, stdout_open, stderr_open, args, made, config, contents, results, ran, tvars>>

\* lib.rs:81  Ok(())
RunReturn ==
  /\ AtRunReturn
  /\ ran' = Some(Ok(<<>>))
  /\ pc' = "if_let_err"
  /\ UNCHANGED <<argv, env, fs, stdout_open, stderr_open, args, made, config, contents, results, next, stdout, outbuf, stderr, exit, tvars>>

\* main.rs:24-29  if let Err(e) = run(config) { eprintln!(..); process::exit(1) }
MainFinish ==
  /\ AtMainFinish
  /\ IF Unwrap(ran).ok
     THEN /\ exit' = Exit(0, "main", "return")
          /\ pc' = "cleanup"
          /\ UNCHANGED stderr
     ELSE EprintlnThenExit(<<"Application error: ", Unwrap(ran).err>>)
  /\ UNCHANGED <<argv, env, fs, stdout_open, stderr_open, args, made, config, contents, results, next, ran, stdout, outbuf, tvars>>

\* the end of the process, however it was reached (main returned,
\* process::exit, a panic): the runtime flushes the line buffer of standard
\* output, which takes all, part or nothing of what a failed println! left
\* in it, and the process exits with the code already chosen, unless an
\* incomplete write of the flush was one past the file size limit
ProcessEnd ==
  /\ AtProcessEnd
  /\ \E m \in 0..Len(outbuf) :
       /\ stdout' = stdout \o SubSeq(outbuf, 1, m)
       /\ outbuf' = SubSeq(outbuf, m + 1, Len(outbuf))
       /\ \/ pc' = "exited" /\ UNCHANGED exit
          \/ /\ m < Len(outbuf)
             /\ Killed(Unwrap(exit).by, Unwrap(exit).why)
  /\ UNCHANGED <<argv, env, fs, stdout_open, stderr_open, args, made, config, contents, results, next, ran, stderr, tvars>>

Next ==
  \/ MainArgs
  \/ MainConfigNew
  \/ MainUnwrapOrElse
  \/ MainPrintQuery
  \/ MainPrintFilename
  \/ RunRead
  \/ RunSearch
  \/ RunOutput
  \/ RunReturn
  \/ MainFinish
  \/ ProcessEnd

Spec == Init /\ [][Next]_vars

(***************************************************************************)
(* The two search functions called directly.                               *)
(***************************************************************************)
InitSearch ==
  /\ MainIdle
  /\ tquery \in Queries
  /\ tcontents \in Contents
  /\ tfound = None
  /\ tfound_ci = None
  /\ tpc = "call_search"

CallSearch ==
  /\ tpc = "call_search"
  /\ tfound' = Some(search(tquery, tcontents))
  /\ tpc' = "call_search_case_insensitive"
  /\ UNCHANGED <<tquery, tcontents, tfound_ci, mvars>>

CallSearchCaseInsensitive ==
  /\ tpc = "call_search_case_insensitive"
  /\ tfound_ci' = Some(search_case_insensitive(tquery, tcontents))
  /\ tpc' = "returned"
  /\ UNCHANGED <<tquery, tcontents, tfound, mvars>>

NextSearch == CallSearch \/ CallSearchCaseInsensitive

SpecSearch == InitSearch /\ [][NextSearch]_vars

(***************************************************************************)
(* Reference notions the properties are stated with, defined from the      *)
(* positions of the line feeds of a text rather than by splitting it.      *)
(***************************************************************************)
LineFeeds(c) == {i \in 1..Len(c) : c[i] = LF}

LineCount(c) ==
  Cardinality(LineFeeds(c)) + (IF c # <<>> /\ c[Len(c)] # LF THEN 1 ELSE 0)

\* position of the k-th line feed of c, 0 for k = 0, Len(c) + 1 when there is none
NthLineFeed(c, k) ==
  IF k = 0 THEN 0
  ELSE IF k > Cardinality(LineFeeds(c)) THEN Len(c) + 1
  ELSE CHOOSE i \in LineFeeds(c) : Cardinality({j \in LineFeeds(c) : j <= i}) = k

FileLine(c, k) ==
  LET first == NthLineFeed(c, k - 1) + 1
      stop == NthLineFeed(c, k)
      last == IF stop <= Len(c) /\ stop - 1 >= first /\ c[stop - 1] = CR
              THEN stop - 2 ELSE stop - 1
  IN  SubSeq(c, first, last)

FileLines(c) == [k \in 1..LineCount(c) |-> FileLine(c, k)]

IsSubstring(q, l) ==
  \E a \in 0..Len(l) :
    /\ a + Len(q) <= Len(l)
    /\ \A i \in 1..Len(q) : l[a + i] = q[i]

\* the elements of s at the positions P, in increasing order of position
Pick(s, P) ==
  [j \in 1..Cardinality(P) |->
     s[CHOOSE k \in P : Cardinality({m \in P : m <= k}) = j]]

IsSubsequence(a, b) ==
  \E f \in [1..Len(a) -> 1..Len(b)] :
    /\ \A j \in 1..Len(a) : a[j] = b[f[j]]
    /\ \A j \in 1..(Len(a) - 1) : f[j] < f[j + 1]

Searched == tfound # None
Returned == tpc = "returned"

(* C1: search(query, contents) returns exactly the lines of contents (split
   at \n, a \r directly before the \n dropped, an unterminated final line
   counted, no empty line after a final terminator) that contain query as a
   literal substring, in file order, a line that occurs k times among the
   matching lines being returned k times. *)
C1_SearchReturnsMatchingLines ==
  Searched =>
    Unwrap(tfound) =
      Pick(FileLines(tcontents),
           {k \in 1..LineCount(tcontents) : IsSubstring(tquery, FileLine(tcontents, k))})

C1_Witness ==
  /\ Searched
  /\ tquery # <<>>
  /\ Len(Unwrap(tfound)) = 2
  /\ Unwrap(tfound)[1] = Unwrap(tfound)[2]

C1_WitnessCrLf ==
  /\ Searched
  /\ tcontents = <<105, CR, LF>>
  /\ Unwrap(tfound) = << <<105>> >>

(* C2: search_case_insensitive(q, c) returns the original text of exactly
   the lines, at the same positions and in the same order, whose lowercased
   form search(lowercase(q), lowercase(c)) returns; both results have the
   same length. *)
C2_CaseInsensitiveIsSearchOnLowercased ==
  Returned =>
    LET r == Unwrap(tfound_ci)
        low == search(to_lowercase(tquery), to_lowercase(tcontents))
        lowc == to_lowercase(tcontents)
        P == {k \in 1..LineCount(lowc) : IsSubstring(to_lowercase(tquery), FileLine(lowc, k))}
    IN  /\ LineCount(lowc) = LineCount(tcontents)
        /\ r = Pick(FileLines(tcontents), P)
        /\ low = Pick(FileLines(lowc), P)
        /\ Len(r) = Len(low)
        /\ \A j \in 1..Len(r) : to_lowercase(r[j]) = low[j]

C2_Witness ==
  /\ Returned
  /\ tquery = <<73>>
  /\ tcontents = <<105, LF, 73>>
  /\ Unwrap(tfound_ci) = << <<105>>, <<73>> >>
  /\ Unwrap(tfound) = << <<73>> >>

(* C8 as claimed: for search and search_case_insensitive alike, an empty
   query returns every line of contents, a query longer than every line of
   contents returns no line, and the empty contents gives the empty result
   for every query. *)
C8_BoundariesAsClaimed ==
  Returned =>
    /\ tquery = <<>> =>
         /\ Unwrap(tfound) = FileLines(tcontents)
         /\ Unwrap(tfound_ci) = FileLines(tcontents)
    /\ (\A k \in 1..LineCount(tcontents) : Len(tquery) > Len(FileLine(tcontents, k))) =>
         /\ Unwrap(tfound) = <<>>
         /\ Unwrap(tfound_ci) = <<>>
    /\ tcontents = <<>> =>
         /\ Unwrap(tfound) = <<>>
         /\ Unwrap(tfound_ci) = <<>>

(* C8 amended: an empty query returns every line of contents from both
   functions; a query longer than every line returns no line from search;
   search_case_insensitive returns no line when the lowercased query is
   longer than the lowercased form of every line; the empty contents gives
   the empty result from both functions for every query. *)
C8_Boundaries ==
  Returned =>
    /\ tquery = <<>> =>
         /\ Unwrap(tfound) = FileLines(tcontents)
         /\ Unwrap(tfound_ci) = FileLines(tcontents)
    /\ (\A k \in 1..LineCount(tcontents) : Len(tquery) > Len(FileLine(tcontents, k))) =>
         Unwrap(tfound) = <<>>
    /\ (\A k \in 1..LineCount(tcontents) :
          Len(to_lowercase(tquery)) > Len(to_lowercase(FileLine(tcontents, k)))) =>
         Unwrap(tfound_ci) = <<>>
    /\ tcontents = <<>> =>
         /\ Unwrap(tfound) = <<>>
         /\ Unwrap(tfound_ci) = <<>>

C8_Witness ==
  /\ Returned
  /\ tquery = <<>>
  /\ LineCount(tcontents) = 2
  /\ Len(Unwrap(tfound)) = 2
  /\ Len(Unwrap(tfound_ci)) = 2
  /\ Unwrap(tfound)[1] # Unwrap(tfound)[2]

(* C10: every line search(q, c) returns is also returned, in the same
   relative order, by search_case_insensitive(q, c). *)
C10_CaseInsensitiveKeepsMatches ==
  Returned => IsSubsequence(Unwrap(tfound), Unwrap(tfound_ci))

(***************************************************************************)
(* Properties of the whole process (Spec).                                 *)
(***************************************************************************)
Exited == pc = "exited"
ExitCode == Unwrap(exit).code
ArgsAreUnicode == \A i \in 1..Len(argv) : IsUnicode(argv[i])
VariablePresent == "CASE_INSENSITIVE" \in DOMAIN env

IsPrefix(a, b) == Len(a) <= Len(b) /\ SubSeq(b, 1, Len(a)) = a

RECURSIVE OnePerLine(_)
OnePerLine(ls) ==
  IF ls = <<>> THEN <<>> ELSE Head(ls) \o <<LF>> \o OnePerLine(Tail(ls))

\* what the claim says standard output is, for query q, file name f and the
\* text of that file
ClaimedStdout(q, f, text) ==
  utf8(SearchingFor \o q \o <<LF>> \o InFile \o f \o <<LF>>
  \o OnePerLine(IF VariablePresent /\ IsUnicode(env["CASE_INSENSITIVE"])
                THEN search_case_insensitive(q, text)
                ELSE search(q, text)))

\* a write to standard output was not taken in full
StdoutFailed ==
  /\ exit # None
  /\ Unwrap(exit).why \in {"failed printing to stdout", "killed printing to stdout"}

\* the process has ended after run's read of the file failed (the two header
\* lines were written before it)
ReadFailed ==
  /\ Exited
  /\ config # None
  /\ ~StdoutFailed
  /\ ~read_to_string(fs, Unwrap(config).filename).ok

(* C3: Config::new(args) fails with the missing-arguments error iff args
   has fewer than 3 elements; with 3 or more it succeeds with query =
   args[1] and filename = args[2] (0-based), whatever follows them; args
   itself is unchanged. *)
C3_ConfigNewContract ==
  made # None =>
    LET r == Unwrap(made)
    IN  /\ args = Some(argv)
        /\ r.ok <=> Len(argv) >= 3
        /\ ~r.ok => r.err = "Some arguments appear to be missing"
        /\ r.ok => /\ r.value.query = argv[2]
                   /\ r.value.filename = argv[3]

C3_Witness ==
  /\ made # None
  /\ Unwrap(made).ok
  /\ Len(argv) = 4
  /\ argv[2] # argv[3]
  /\ argv[4] # argv[3]

C3_WitnessMissing ==
  /\ made # None
  /\ ~Unwrap(made).ok
  /\ Len(argv) = 2

(* C4: in every Config that Config::new constructs, case_sensitive is true
   exactly when CASE_INSENSITIVE is absent, and false whenever it is
   present, for every value it can hold. *)
C4_CaseSensitiveIffAbsent ==
  (made # None /\ Unwrap(made).ok) =>
    (Unwrap(made).value.case_sensitive <=> ~VariablePresent)

(* C5: the process ends with exit code 1 in both failure cases: with fewer
   than 2 positional arguments, and a message prefixed "Problem parsing
   arguments: " on standard error; and when reading the file fails, with a
   message prefixed "Application error: " on standard error. *)
C5_ExitCodeOneOnFailure ==
  Exited =>
    /\ Len(argv) < 3 =>
         /\ ExitCode = Some(1)
         /\ Len(stderr) = 1
         /\ stderr[1].text[1] = "Problem parsing arguments: "
    /\ ReadFailed =>
         /\ ExitCode = Some(1)
         /\ Len(stderr) = 1
         /\ stderr[1].text[1] = "Application error: "

(* C6: in every execution with at least 2 positional arguments and a
   readable file, standard output is exactly "Searching for <query>", "In
   file <filename>", then one line per matching line of the file in file
   order, unchanged; no match line is written before the two informational
   lines and nothing else is written (what has been written is at every
   moment a prefix of that text, and all of it when the process has
   ended). *)
C6_StdoutAsClaimed ==
  (Len(argv) >= 3 /\ read_to_string(fs, argv[3]).ok) =>
    LET want == ClaimedStdout(argv[2], argv[3], fs[argv[3]])
    IN  /\ IsPrefix(stdout, want)
        /\ Exited => stdout = want

(* C7: whenever at least 2 positional arguments are given and the file
   read succeeds, the process ends with exit code 0 and writes nothing to
   standard error, for any number of matches including zero; standard error
   is written only on the failure paths (fewer than 2 positional arguments,
   a failed read). *)
C7_AsClaimed ==
  /\ (Len(argv) >= 3 /\ contents # None) =>
       /\ stderr = <<>>
       /\ Exited => ExitCode = Some(0)
  /\ stderr # <<>> =>
       \/ Len(argv) < 3
       \/ ~read_to_string(fs, argv[3]).ok

(* C9: every error is surfaced with its original message to main, and main
   is the sole place that writes to standard error and chooses the exit
   code: neither Config::new nor run writes to standard error or ends the
   process. *)
C9_OnlyMainReportsAndExits ==
  /\ \A i \in 1..Len(stderr) : stderr[i].by = "main"
  /\ exit # None => Unwrap(exit).by = "main"
  /\ (Exited /\ made # None /\ ~Unwrap(made).ok) =>
       /\ Unwrap(made).err = "Some arguments appear to be missing"
       /\ \A i \in 1..Len(stderr) :
            stderr[i].text[1] = "Problem parsing arguments: " =>
              stderr[i].text[2] = Unwrap(made).err
  /\ (Exited /\ ReadFailed) =>
       /\ ran # None
       /\ ~Unwrap(ran).ok

====
